---- MODULE Spec2Model ----
(***************************************************************************)
(* Model of bottleneck/slow/func.py: the NaN-aware reductions nanmean,     *)
(* nanstd, nanvar and nanmedian together with the local copies of the      *)
(* scipy.stats routines they call.                                         *)
(*                                                                         *)
(* Numbers are exact: a value is NaN, +/-Inf, a rational n/d in lowest     *)
(* terms, or the square root of a rational that is not a perfect square.   *)
(* An array is a descriptor (buffer id, shape, dtype) over a memory that   *)
(* maps buffer ids to flat, row-major element sequences, so that views     *)
(* (ravel) and copies (x.copy()) are told apart.                           *)
(***************************************************************************)
EXTENDS Integers, Sequences, FiniteSets, TLC

\* Largest number of elements of a modelled input array (1-D or 2-D) and
\* largest extent of one dimension of a 2-D input.
MaxCells == 4
MaxSide == 2

---------------------------------------------------------------------------
\* Exact arithmetic with IEEE-style NaN and Inf.

Abs(i) == IF i < 0 THEN -i ELSE i

RECURSIVE GCD(_, _)
GCD(a, b) == IF b = 0 THEN a ELSE GCD(b, a % b)

NaN == [k |-> "nan", n |-> 0, d |-> 0]
Inf(s) == [k |-> "inf", n |-> s, d |-> 0]

\* The rational n/d, d # 0, in lowest terms with a positive denominator.
Rat(n, d) ==
    LET g == GCD(Abs(n), Abs(d))
        s == IF d < 0 THEN -1 ELSE 1
    IN  [k |-> "q", n |-> (s * n) \div g, d |-> Abs(d) \div g]

Num(i) == [k |-> "q", n |-> i, d |-> 1]
Zero == Num(0)
One == Num(1)

IsNaN(a) == a.k = "nan"
Sign(i) == IF i < 0 THEN -1 ELSE IF i > 0 THEN 1 ELSE 0

\* Largest r with r * r <= i, for i >= 0.
RECURSIVE ISqrtFrom(_, _)
ISqrtFrom(i, r) == IF (r + 1) * (r + 1) > i THEN r ELSE ISqrtFrom(i, r + 1)
ISqrt(i) == ISqrtFrom(i, 0)
IsSquare(i) == ISqrt(i) * ISqrt(i) = i

\* np.sqrt on a rational or non-finite value.
Sqrt(a) ==
    IF a.k = "nan" THEN NaN
    ELSE IF a.k = "inf" THEN (IF a.n > 0 THEN a ELSE NaN)
    ELSE IF a.k = "sqrt" THEN NaN
    ELSE IF a.n < 0 THEN NaN
    ELSE IF IsSquare(a.n) /\ IsSquare(a.d) THEN Rat(ISqrt(a.n), ISqrt(a.d))
    ELSE [k |-> "sqrt", n |-> a.n, d |-> a.d]

Add(a, b) ==
    IF a.k = "nan" \/ b.k = "nan" THEN NaN
    ELSE IF a.k = "sqrt" \/ b.k = "sqrt" THEN NaN
    ELSE IF a.k = "inf" /\ b.k = "inf" THEN (IF a.n = b.n THEN a ELSE NaN)
    ELSE IF a.k = "inf" THEN a
    ELSE IF b.k = "inf" THEN b
    ELSE Rat(a.n * b.d + b.n * a.d, a.d * b.d)

Neg(a) == IF a.k \in {"nan", "sqrt"} THEN NaN
          ELSE [k |-> a.k, n |-> -a.n, d |-> a.d]

Sub(a, b) == Add(a, Neg(b))

\* The product; the only surd product the code forms is y * y in nanvar,
\* sqrt(p) * sqrt(q) = sqrt(p * q).
Mul(a, b) ==
    IF a.k = "nan" \/ b.k = "nan" THEN NaN
    ELSE IF a.k = "sqrt" /\ b.k = "sqrt"
         THEN (IF a = b THEN Rat(a.n, a.d) ELSE Sqrt(Rat(a.n * b.n, a.d * b.d)))
    ELSE IF a.k = "sqrt" \/ b.k = "sqrt" THEN NaN
    ELSE IF a.k = "inf" \/ b.k = "inf"
         THEN (IF Sign(a.n) * Sign(b.n) = 0 THEN NaN ELSE Inf(Sign(a.n) * Sign(b.n)))
    ELSE Rat(a.n * b.n, a.d * b.d)

\* Floating-point division: x/0 is NaN for x = 0 and +/-Inf otherwise.
Div(a, b) ==
    IF a.k = "nan" \/ b.k = "nan" THEN NaN
    ELSE IF a.k = "sqrt" \/ b.k = "sqrt" THEN NaN
    ELSE IF a.k = "inf" THEN (IF b.k = "inf" THEN NaN
                              ELSE Inf(IF b.n < 0 THEN -a.n ELSE a.n))
    ELSE IF b.k = "inf" THEN Zero
    ELSE IF b.n = 0 THEN (IF a.n = 0 THEN NaN ELSE Inf(Sign(a.n)))
    ELSE Rat(a.n * b.d, a.d * b.n)

\* a < b on finite rationals (the order np.sort uses on NaN-free data).
Less(a, b) == a.n * b.d < b.n * a.d

\* The == of the language: NaN compares unequal to everything.
FloatEq(a, b) == ~IsNaN(a) /\ ~IsNaN(b) /\ a = b

---------------------------------------------------------------------------
\* Arrays, memory and the array-library primitives the code calls.

Inexact == {"float32", "float64"}
Exact == {"bool", "int64"}

\* Buffer ids: the caller's storage and the storage x.copy() allocates.
CallerBuf == "caller"
ScratchBuf == "scratch"

\* Number of elements of an array of the given shape (1-D or 2-D).
Size(shape) == IF Len(shape) = 1 THEN shape[1] ELSE shape[1] * shape[2]

\* a.ravel() / np.ravel(a) of a C-contiguous array: a 1-D view of the same
\* storage, no copy.
ravel(a) == [a EXCEPT !.shape = <<Size(a.shape)>>]

\* Mutant of Copy: a view instead of a copy.
CopyAlias(m, a) == [mem |-> m, a |-> a]

\* x.copy(): fresh storage with the same contents.
Copy(m, a) ==
    [mem |-> [m EXCEPT ![ScratchBuf] = m[a.buf]],
     a |-> [a EXCEPT !.buf = ScratchBuf]]

\* x[np.isnan(x)] = 0: writes through to the storage x refers to.
ZeroFill(m, a) ==
    [m EXCEPT ![a.buf] = [p \in 1..Len(m[a.buf]) |->
                             IF IsNaN(m[a.buf][p]) THEN Zero ELSE m[a.buf][p]]]

\* t[axis] on a tuple of length nd: Python accepts -nd <= axis < nd.
TupleIndexOk(axis, nd) == -nd <= axis /\ axis < nd
TupleIndex(axis, nd) == IF axis < 0 THEN axis + nd + 1 ELSE axis + 1

\* The non-negative axis a reduction uses for a (possibly negative) axis.
NativeAxis(axis, nd) == IF axis < 0 THEN axis + nd ELSE axis

\* Number of slices along axis ax (0-based, non-negative) and the flat
\* row-major position of element t of slice k.
OutLen(shape, ax) == IF Len(shape) = 1 THEN 1
                     ELSE IF ax = 0 THEN shape[2] ELSE shape[1]
FlatIdx(shape, ax, k, t) == IF Len(shape) = 1 THEN t
                            ELSE IF ax = 0 THEN (t - 1) * shape[2] + k
                            ELSE (k - 1) * shape[2] + t
SliceOf(data, shape, ax, k) ==
    [t \in 1..shape[ax + 1] |-> data[FlatIdx(shape, ax, k, t)]]

RECURSIVE SumSeq(_)
SumSeq(s) == IF s = <<>> THEN Zero ELSE Add(s[1], SumSeq(Tail(s)))

\* np.sum(x, axis), np.sum(np.isnan(x), axis) and np.mean(x, axis).
np_sum(data, shape, ax) ==
    [k \in 1..OutLen(shape, ax) |-> SumSeq(SliceOf(data, shape, ax, k))]
np_count_nan(data, shape, ax) ==
    [k \in 1..OutLen(shape, ax) |->
        Cardinality({t \in 1..shape[ax + 1] :
                        IsNaN(data[FlatIdx(shape, ax, k, t)])})]
np_mean(data, shape, ax) ==
    [k \in 1..OutLen(shape, ax) |->
        Div(np_sum(data, shape, ax)[k], Num(shape[ax + 1]))]

\* Element type of a binary operation on arrays of types a and b.
ResultType(a, b) ==
    IF a = b THEN a
    ELSE IF "float64" \in {a, b} THEN "float64"
    ELSE IF "float32" \in {a, b}
         THEN (IF "int64" \in {a, b} THEN "float64" ELSE "float32")
    ELSE "int64"
\* Element type of np.mean / np.median and of np.sum.
MeanType(t) == IF t \in Inexact THEN t ELSE "float64"
SumType(t) == IF t \in Inexact THEN t ELSE "int64"

---------------------------------------------------------------------------
\* Outcome of a call: status "ok" or the error raised; res the result's
\* elements (one per slice) with rnd its number of dimensions and rdtype its
\* element type ("pyfloat" is a plain Python float, which has no dtype);
\* errAxis the axis value an axis error message carries; copied whether
\* x.copy() was executed; m2c the corrected second moment of scipy_nanstd.

Raise(m, err, ax, cp) ==
    [status |-> err, res |-> <<>>, rnd |-> 0, rdtype |-> "none",
     errAxis |-> ax, copied |-> cp, m2c |-> <<>>, mem |-> m]

Return(m, v, nd, dt, cp, mc) ==
    [status |-> "ok", res |-> v, rnd |-> nd, rdtype |-> dt,
     errAxis |-> <<>>, copied |-> cp, m2c |-> mc, mem |-> m]

\* Mutant of _chk_asarray: axis None taken as axis 0 without flattening.
chk_asarrayNoRavel(a, axis) ==
    IF axis = <<>> THEN [a |-> a, outaxis |-> 0]
    ELSE [a |-> a, outaxis |-> axis[1]]

\* _chk_asarray: axis None (<<>>) ravels and uses axis 0.
_chk_asarray(a, axis) ==
    IF axis = <<>> THEN [a |-> ravel(a), outaxis |-> 0]
    ELSE [a |-> a, outaxis |-> axis[1]]

\* Mutant of ValidFraction: the NaN count is not taken off.
ValidFractionIgnoringNaN(nnan, Norig) == One

\* 1.0 - np.sum(np.isnan(x), axis) * 1.0 / Norig
ValidFraction(nnan, Norig) == Sub(One, Div(Mul(Num(nnan), One), Num(Norig)))

\* factor, the zero-fill and np.mean(x, axis) / factor on the copy cp, with
\* the NaN counts cnt taken before the zero-fill.
MeanOfZeroFilled(mz, x, axis, cnt) ==
    Return(mz,
           [k \in 1..Len(cnt) |->
               Div(np_mean(mz[x.buf], x.shape, NativeAxis(axis, Len(x.shape)))[k],
                   ValidFraction(cnt[k], x.shape[TupleIndex(axis, Len(x.shape))]))],
           Len(x.shape) - 1, ResultType(MeanType(x.dtype), "float64"), TRUE, <<>>)

\* Norig = x.shape[axis] and everything after it, on the copy cp.
MeanOfCopy(cp, axis) ==
    IF ~TupleIndexOk(axis, Len(cp.a.shape))
    THEN Raise(cp.mem, "IndexError", <<>>, TRUE)
    ELSE MeanOfZeroFilled(ZeroFill(cp.mem, cp.a), cp.a, axis,
                          np_count_nan(cp.mem[cp.a.buf], cp.a.shape,
                                       NativeAxis(axis, Len(cp.a.shape))))

\* x, axis = _chk_asarray(x, axis); x = x.copy(); the rest on the copy.
scipy_nanmean(m, x0, axis0) ==
    MeanOfCopy(Copy(m, _chk_asarray(x0, axis0).a), _chk_asarray(x0, axis0).outaxis)

\* Mutant of Preserve: the result keeps the type the computation produced.
PreserveNever(ydt, adt) == ydt

\* if y.dtype != arr.dtype: if issubclass(arr.dtype.type, np.inexact):
\*     y = y.astype(arr.dtype)
\* (the cast changes the element type; values stay exact in this model).
Preserve(ydt, adt) == IF ydt # adt /\ adt \in Inexact THEN adt ELSE ydt

\* The dtype cast of nanmean and nanstd applied to the outcome y.
Cast(y, adt) ==
    IF y.status # "ok" THEN y
    ELSE [y EXCEPT !.rdtype = Preserve(y.rdtype, adt)]

nanmean(m, arr0, axis) == Cast(scipy_nanmean(m, arr0, axis), arr0.dtype)

---------------------------------------------------------------------------
\* nanstd / nanvar and scipy_nanstd.

\* Mutant of DdofInvalid: only negative ddof is rejected.
DdofInvalidNegativeOnly(ddof) == ddof < 0

\* ddof == 0: bias = True; ddof == 1: bias = False; else: raise ValueError
DdofInvalid(ddof) == ddof # 0 /\ ddof # 1

\* Mutant of AxisOutOfBounds: the lower bound is not checked.
AxisOutOfBoundsUpperOnly(axis, nd) == axis >= nd

\* if (axis < 0) or (axis >= arr.ndim): raise ValueError
AxisOutOfBounds(axis, nd) == axis < 0 \/ axis >= nd

\* Row and column (1-based) of flat position p of a 2-D array with C columns.
RowOf(p, C) == ((p - 1) \div C) + 1
ColOf(p, C) == ((p - 1) % C) + 1

\* x - m1 under the library's broadcasting: m1 is aligned with the trailing
\* dimension of x (a 1-D x has a 0-d m1).
BroadcastTrailing(m1, shape, p) ==
    IF Len(shape) = 1 \/ Len(m1) = 1 THEN m1[1]
    ELSE IF Len(m1) = shape[2] THEN m1[ColOf(p, shape[2])]
    ELSE NaN

\* x - np.expand_dims(m1, axis): m1 gets a unit dimension at position axis
\* (counted from the end when negative), so for a 2-D x it is a column for
\* axis 1 and a row for axis 0; for a 1-D x it has one element.
BroadcastExpanded(m1, shape, axis, p) ==
    IF Len(shape) = 1 THEN m1[1]
    ELSE IF NativeAxis(axis, Len(shape)) = 1 THEN m1[RowOf(p, shape[2])]
    ELSE m1[ColOf(p, shape[2])]

\* Mutant of Deviations: x - m1 without expand_dims on every axis.
DeviationsNoExpand(data, shape, m1, axis) ==
    [p \in 1..Len(data) |->
        LET e == Sub(data[p], BroadcastTrailing(m1, shape, p))
        IN  Mul(e, e)]

\* if axis: d = (x - np.expand_dims(m1, axis))**2.0
\* else:    d = (x - m1)**2.0
Deviations(data, shape, m1, axis) ==
    [p \in 1..Len(data) |->
        LET b == IF axis # 0 THEN BroadcastExpanded(m1, shape, axis, p)
                 ELSE BroadcastTrailing(m1, shape, p)
            e == Sub(data[p], b)
        IN  Mul(e, e)]

\* Mutant of Correct: the biased divisor whatever bias says.
CorrectAlwaysBiased(m2, n, bias) == Div(m2, n)

\* if bias: m2c = m2 / n   else: m2c = m2 / (n - 1.)
Correct(m2, n, bias) == IF bias THEN Div(m2, n) ELSE Div(m2, Sub(n, One))

\* Nnan = np.sum(np.isnan(x), axis) * 1.0 and n = Norig - Nnan, for slice k
\* with cnt NaN entries.
NnanOf(cnt) == Mul(Num(cnt), One)
NOf(Norig, cnt) == Sub(Num(Norig), NnanOf(cnt))

\* return np.sqrt(m2c)
StdReturn(mz, x, m2c) ==
    Return(mz, [k \in 1..Len(m2c) |-> Sqrt(m2c[k])], Len(x.shape) - 1,
           ResultType(ResultType(x.dtype, ResultType(SumType(x.dtype), "float64")),
                      "float64"),
           TRUE, m2c)

\* m2 = np.sum(d, axis) - (m1 * m1) * Nnan, then the correction, given the
\* sums sd of the squared deviations.
StdCorrect(mz, x, axis, cnt, m1, sd, bias) ==
    StdReturn(mz, x,
              [k \in 1..Len(m1) |->
                  Correct(Sub(sd[k], Mul(Mul(m1[k], m1[k]), NnanOf(cnt[k]))),
                          NOf(x.shape[TupleIndex(axis, Len(x.shape))], cnt[k]),
                          bias)])

\* d and its sums along the axis, given m1.
StdDeviations(mz, x, axis, cnt, m1, bias) ==
    StdCorrect(mz, x, axis, cnt, m1,
               np_sum(Deviations(mz[x.buf], x.shape, m1, axis), x.shape,
                      NativeAxis(axis, Len(x.shape))),
               bias)

\* m1 = np.sum(x, axis) / n, given the sums sm of the zero-filled copy.
StdMean(mz, x, axis, cnt, sm, bias) ==
    StdDeviations(mz, x, axis, cnt,
                  [k \in 1..Len(sm) |->
                      Div(sm[k], NOf(x.shape[TupleIndex(axis, Len(x.shape))], cnt[k]))],
                  bias)

\* x[np.isnan(x)] = 0. and the sums of the zero-filled copy mz, given the
\* NaN counts cnt taken before the zero-fill.
StdZeroFilled(mz, x, axis, cnt, bias) ==
    StdMean(mz, x, axis, cnt,
            np_sum(mz[x.buf], x.shape, NativeAxis(axis, Len(x.shape))), bias)

\* Norig = x.shape[axis] and everything after it, on the copy cp.
StdOfCopy(cp, axis, bias) ==
    IF ~TupleIndexOk(axis, Len(cp.a.shape))
    THEN Raise(cp.mem, "IndexError", <<>>, TRUE)
    ELSE StdZeroFilled(ZeroFill(cp.mem, cp.a), cp.a, axis,
                       np_count_nan(cp.mem[cp.a.buf], cp.a.shape,
                                    NativeAxis(axis, Len(cp.a.shape))),
                       bias)

\* x, axis = _chk_asarray(x, axis); x = x.copy(); the rest on the copy.
scipy_nanstd(m, x0, axis0, bias) ==
    StdOfCopy(Copy(m, _chk_asarray(x0, axis0).a),
              _chk_asarray(x0, axis0).outaxis, bias)

\* if axis < 0: axis += arr.ndim
Normalized(axis, nd) == IF axis < 0 THEN axis + nd ELSE axis

\* nanstd: the ddof check, then the axis check (which reports the axis
\* variable after axis += arr.ndim), then scipy_nanstd and the dtype cast.
nanstd(m, arr0, axis, ddof) ==
    IF DdofInvalid(ddof) THEN Raise(m, "InvalidDDoF", <<>>, FALSE)
    ELSE IF axis # <<>>
    THEN (IF AxisOutOfBounds(Normalized(axis[1], Len(arr0.shape)), Len(arr0.shape))
          THEN Raise(m, "InvalidAxis",
                     <<Normalized(axis[1], Len(arr0.shape))>>, FALSE)
          ELSE Cast(scipy_nanstd(m, arr0,
                                 <<Normalized(axis[1], Len(arr0.shape))>>,
                                 ddof = 0),
                    arr0.dtype))
    ELSE Cast(scipy_nanstd(m, ravel(arr0), <<0>>, ddof = 0), arr0.dtype)

\* return y * y
Square(y) ==
    IF y.status # "ok" THEN y
    ELSE [y EXCEPT !.res = [k \in 1..Len(y.res) |-> Mul(y.res[k], y.res[k])],
                   !.rdtype = ResultType(y.rdtype, y.rdtype)]

\* nanvar: y = nanstd(arr, axis=axis, ddof=ddof); return y * y
nanvar(m, arr0, axis, ddof) == Square(nanstd(m, arr0, axis, ddof))

---------------------------------------------------------------------------
\* nanmedian, scipy_nanmedian and _nanmedian.

\* np.compress(1 - np.isnan(arr1d), arr1d)
Compress(s) == SelectSeq(s, LAMBDA v : ~IsNaN(v))

\* np.sort on NaN-free data (insertion sort; the result is the sorted order).
RECURSIVE Insert(_, _)
Insert(v, s) == IF s = <<>> THEN <<v>>
                ELSE IF Less(s[1], v) THEN <<s[1]>> \o Insert(v, Tail(s))
                ELSE <<v>> \o s
RECURSIVE np_sort(_)
np_sort(s) == IF s = <<>> THEN <<>> ELSE Insert(s[1], np_sort(Tail(s)))

\* np.median of a non-empty 1-D array: NaN if any element is NaN, else the
\* mean of the middle element(s) of the sorted data.
np_median(s) ==
    IF \E i \in 1..Len(s) : IsNaN(s[i]) THEN NaN
    ELSE LET t == np_sort(SelectSeq(s, LAMBDA v : ~IsNaN(v)))
             h == Len(t) \div 2
         IN  IF Len(t) % 2 = 1 THEN t[h + 1]
             ELSE Div(Add(t[h], t[h + 1]), Num(2))

\* Mutant of _nanmedian: the NaN entries are not filtered out.
nanmedianKeepNaN(arr1d) ==
    IF Len(arr1d) = 0 THEN NaN ELSE np_median(arr1d)

\* _nanmedian: x = np.sort(np.compress(cond, arr1d)); np.nan if x is empty,
\* else np.median(x).
_nanmedian(arr1d) ==
    LET x == np_sort(Compress(arr1d))
    IN  IF Len(x) = 0 THEN NaN ELSE np_median(x)

\* Element type of what _nanmedian returns: np.nan is a Python float
\* (float64 once stored), np.median keeps an inexact type.
_nanmedianType(arr1d, dt) ==
    IF Len(Compress(arr1d)) = 0 THEN "float64" ELSE MeanType(dt)

\* np.apply_along_axis(_nanmedian, axis, x) on the copy: rejects an axis
\* outside the array, else one result per slice, the output array taking
\* the element type of the first slice's result; a 0-d result is returned as
\* float(x.item()).
MedianOfCopy(cp, axis) ==
    IF ~TupleIndexOk(axis, Len(cp.a.shape))
    THEN Raise(cp.mem, "AxisError", <<>>, TRUE)
    ELSE Return(cp.mem,
                [k \in 1..OutLen(cp.a.shape, NativeAxis(axis, Len(cp.a.shape))) |->
                    _nanmedian(SliceOf(cp.mem[cp.a.buf], cp.a.shape,
                                       NativeAxis(axis, Len(cp.a.shape)), k))],
                Len(cp.a.shape) - 1,
                IF Len(cp.a.shape) = 1 THEN "pyfloat"
                ELSE _nanmedianType(SliceOf(cp.mem[cp.a.buf], cp.a.shape,
                                            NativeAxis(axis, Len(cp.a.shape)), 1),
                                    cp.a.dtype),
                TRUE, <<>>)

\* x, axis = _chk_asarray(x, axis); x = x.copy(); the rest on the copy.
\* (The x.ndim == 0 early return is not taken: inputs have one or two
\* dimensions.)
scipy_nanmedian(m, x0, axis0) ==
    MedianOfCopy(Copy(m, _chk_asarray(x0, axis0).a),
                 _chk_asarray(x0, axis0).outaxis)

\* if not hasattr(y, "dtype"): the plain float is cast to the input's type
\* if inexact and to float64 otherwise.
ScalarType(ydt, adt) ==
    IF ydt = "pyfloat" THEN (IF adt \in Inexact THEN adt ELSE "float64")
    ELSE ydt

\* The dtype handling of nanmedian applied to the outcome y.
CastMedian(y, adt) ==
    IF y.status # "ok" THEN y
    ELSE [y EXCEPT !.rdtype = Preserve(ScalarType(y.rdtype, adt), adt)]

nanmedian(m, arr0, axis) ==
    CastMedian(scipy_nanmedian(m, arr0, axis), arr0.dtype)

---------------------------------------------------------------------------
\* The calls a client can make on one array it owns.

VARIABLES
    arr,    \* the caller's array: buffer id, shape and element type
    heap,   \* buffer id -> flat row-major contents
    pc,     \* "idle" between calls, "done" when a call has finished
    call,   \* the last call: function, axis (<<>> is None) and ddof
    out     \* its outcome (see Return / Raise), without the memory

vars == <<arr, heap, pc, call, out>>

\* Element values of the modelled inputs.
Vals == {NaN, Zero, One, Num(3)}

Shapes == {sh \in {<<r>> : r \in 1..MaxCells}
                   \cup {<<r, c>> : r \in 1..MaxSide, c \in 1..MaxSide} :
              Size(sh) <= MaxCells}

\* Element types that can hold the data: NaN needs an inexact type, bool
\* holds only 0 and 1.
DtypesFor(data) ==
    IF \E p \in 1..Len(data) : IsNaN(data[p]) THEN Inexact
    ELSE IF \A p \in 1..Len(data) : data[p] \in {Zero, One}
         THEN Inexact \cup Exact
    ELSE Inexact \cup {"int64"}

\* Axis arguments tried on an array of nd dimensions: None and every integer
\* from -nd-1 to nd.
AxesFor(nd) == {<<>>} \cup {<<a>> : a \in (0 - nd - 1)..nd}
Ddofs == {-1, 0, 1, 2}

NoCall == [fn |-> "none", axis |-> <<>>, ddof |-> 0]
NoOut == [status |-> "none", res |-> <<>>, rnd |-> 0, rdtype |-> "none",
          errAxis |-> <<>>, copied |-> FALSE, m2c |-> <<>>]
Outcome(r) == [status |-> r.status, res |-> r.res, rnd |-> r.rnd,
               rdtype |-> r.rdtype, errAxis |-> r.errAxis,
               copied |-> r.copied, m2c |-> r.m2c]

Init ==
    /\ \E sh \in Shapes :
       \E data \in [1..Size(sh) -> Vals] :
       \E dt \in DtypesFor(data) :
          /\ arr = [buf |-> CallerBuf, shape |-> sh, dtype |-> dt]
          /\ heap = [b \in {CallerBuf, ScratchBuf} |->
                        IF b = CallerBuf THEN data ELSE <<>>]
    /\ pc = "idle"
    /\ call = NoCall
    /\ out = NoOut

CallNanmean ==
    /\ pc = "idle"
    /\ \E axis \in AxesFor(Len(arr.shape)) :
          LET r == nanmean(heap, arr, axis)
          IN  /\ heap' = r.mem
              /\ out' = Outcome(r)
              /\ call' = [fn |-> "nanmean", axis |-> axis, ddof |-> 0]
    /\ pc' = "done"
    /\ UNCHANGED arr

CallNanmedian ==
    /\ pc = "idle"
    /\ \E axis \in AxesFor(Len(arr.shape)) :
          LET r == nanmedian(heap, arr, axis)
          IN  /\ heap' = r.mem
              /\ out' = Outcome(r)
              /\ call' = [fn |-> "nanmedian", axis |-> axis, ddof |-> 0]
    /\ pc' = "done"
    /\ UNCHANGED arr

CallNanstd ==
    /\ pc = "idle"
    /\ \E axis \in AxesFor(Len(arr.shape)), ddof \in Ddofs :
          LET r == nanstd(heap, arr, axis, ddof)
          IN  /\ heap' = r.mem
              /\ out' = Outcome(r)
              /\ call' = [fn |-> "nanstd", axis |-> axis, ddof |-> ddof]
    /\ pc' = "done"
    /\ UNCHANGED arr

CallNanvar ==
    /\ pc = "idle"
    /\ \E axis \in AxesFor(Len(arr.shape)), ddof \in Ddofs :
          LET r == nanvar(heap, arr, axis, ddof)
          IN  /\ heap' = r.mem
              /\ out' = Outcome(r)
              /\ call' = [fn |-> "nanvar", axis |-> axis, ddof |-> ddof]
    /\ pc' = "done"
    /\ UNCHANGED arr

\* The caller takes the result; the copy made by the call is garbage.
Finish ==
    /\ pc = "done"
    /\ pc' = "idle"
    /\ heap' = [heap EXCEPT ![ScratchBuf] = <<>>]
    /\ call' = NoCall
    /\ out' = NoOut
    /\ UNCHANGED arr

Next == CallNanmean \/ CallNanmedian \/ CallNanstd \/ CallNanvar \/ Finish

Spec == Init /\ [][Next]_vars

---------------------------------------------------------------------------
\* Reference definitions used to state the properties: the 1-D slices of the
\* caller's array for an axis argument, and textbook statistics of the
\* non-NaN entries of one slice.

Data == heap[CallerBuf]
Ndim == Len(arr.shape)
Finished(fns) == pc = "done" /\ call.fn \in fns

\* The axis argument is None or an integer in [-ndim, ndim).
AxisValid(axis) == axis = <<>> \/ (0 - Ndim <= axis[1] /\ axis[1] < Ndim)
AxisInRange(axis) == axis # <<>> /\ 0 - Ndim <= axis[1] /\ axis[1] < Ndim
AxisOutOfRange(axis) == axis # <<>> /\ ~AxisInRange(axis)

Column(j) == [i \in 1..arr.shape[1] |-> Data[(i - 1) * arr.shape[2] + j]]
Row(i) == SubSeq(Data, (i - 1) * arr.shape[2] + 1, i * arr.shape[2])

\* The slices reduced for an axis argument, in output order.
RefSlices(axis) ==
    IF axis = <<>> \/ Ndim = 1 THEN <<Data>>
    ELSE IF axis[1] \in {0, 0 - 2} THEN [j \in 1..arr.shape[2] |-> Column(j)]
    ELSE [i \in 1..arr.shape[1] |-> Row(i)]
RefNdim(axis) == IF axis = <<>> THEN 0 ELSE Ndim - 1

Valid(s) == SelectSeq(s, LAMBDA v : ~IsNaN(v))
NValid(s) == Len(Valid(s))

RefMean(s) == IF NValid(s) = 0 THEN NaN
              ELSE Div(SumSeq(Valid(s)), Num(NValid(s)))

RefVar(s, ddof) ==
    IF NValid(s) <= ddof THEN NaN
    ELSE LET v == Valid(s)
             dev == [i \in 1..Len(v) |->
                        Mul(Sub(v[i], RefMean(s)), Sub(v[i], RefMean(s)))]
         IN  Div(SumSeq(dev), Num(Len(v) - ddof))

\* The r-th smallest element of a NaN-free sequence, by counting.
OrderStat(v, r) ==
    CHOOSE x \in {v[i] : i \in 1..Len(v)} :
        /\ Cardinality({i \in 1..Len(v) : Less(v[i], x)}) < r
        /\ r <= Cardinality({i \in 1..Len(v) : ~Less(x, v[i])})

RefMedian(s) ==
    LET v == Valid(s)
        h == Len(v) \div 2
    IN  IF Len(v) = 0 THEN NaN
        ELSE IF Len(v) % 2 = 1 THEN OrderStat(v, h + 1)
        ELSE Div(Add(OrderStat(v, h), OrderStat(v, h + 1)), Num(2))

\* The result has one element per slice, each as given by F.
ResultIs(axis, F(_)) ==
    /\ out.status = "ok"
    /\ out.rnd = RefNdim(axis)
    /\ Len(out.res) = Len(RefSlices(axis))
    /\ \A k \in 1..Len(RefSlices(axis)) : out.res[k] = F(RefSlices(axis)[k])

---------------------------------------------------------------------------
\* C1: for every array and every valid axis (None meaning the flattened
\* array) each element of nanmean is the sum of the slice's non-NaN entries
\* divided by their count, and NaN (no error, not 0) when there are none.
C1_NanmeanIsMeanOfValid ==
    (Finished({"nanmean"}) /\ AxisValid(call.axis)) => ResultIs(call.axis, RefMean)

\* A 2-D call along axis 1 with an all-NaN row and a row mixing NaN with
\* entries whose mean is not 0.
C1_Witness ==
    /\ Finished({"nanmean"}) /\ call.axis = <<1>> /\ Ndim = 2
    /\ out.status = "ok"
    /\ \E k \in 1..Len(out.res) : IsNaN(out.res[k]) /\ NValid(Row(k)) = 0
    /\ \E k \in 1..Len(out.res) :
          /\ NValid(Row(k)) > 0 /\ NValid(Row(k)) < Len(Row(k))
          /\ out.res[k] \notin {NaN, Zero}

\* C2: for every successful nanstd / nanvar call the corrected second
\* moment whose square root is taken equals the sum of squared deviations
\* of the slice's non-NaN entries from their mean divided by n - ddof, and
\* is NaN when n <= ddof.
C2_M2cIsVarianceOfValid ==
    (Finished({"nanstd", "nanvar"}) /\ out.status = "ok") =>
        /\ Len(out.m2c) = Len(RefSlices(call.axis))
        /\ \A k \in 1..Len(out.m2c) :
              out.m2c[k] = RefVar(RefSlices(call.axis)[k], call.ddof)

\* Axis 1 of a 2 x 2 array, unbiased, with a row that holds one valid entry
\* (NaN result) and a row with non-zero variance.
C2_Witness ==
    /\ Finished({"nanstd"}) /\ call.axis = <<1>> /\ call.ddof = 1
    /\ arr.shape = <<2, 2>> /\ out.status = "ok"
    /\ \E k \in 1..2 : NValid(Row(k)) = 1 /\ IsNaN(out.m2c[k])
    /\ \E k \in 1..2 : out.m2c[k] \notin {NaN, Zero}

\* C3: each element of nanmedian is the median of the sorted non-NaN
\* entries of its slice (middle element, or mean of the two middle ones),
\* NaN for a slice without non-NaN entry, slices keeping their positions.
C3_NanmedianIsMedianOfValid ==
    (Finished({"nanmedian"}) /\ AxisValid(call.axis)) =>
        ResultIs(call.axis, RefMedian)

\* Axis 0 of a 2 x 2 array: the first column is unsorted with an even
\* count (median 3/2), the second holds a NaN and one valid entry.
C3_Witness ==
    /\ Finished({"nanmedian"}) /\ call.axis = <<0>> /\ arr.shape = <<2, 2>>
    /\ out.status = "ok" /\ Len(out.res) = 2
    /\ Column(1) = <<Num(3), Zero>> /\ out.res[1] = Rat(3, 2)
    /\ NValid(Column(2)) = 1 /\ out.res[2] = One

\* The two sides of the ddof relation for slice k of a nanvar call with
\* ddof = 0: the recorded result, and nanvar with ddof = 1 on the same array
\* and axis times (n - 1) / n.
VarBiased(k) == out.res[k]
VarUnbiasedScaled(k) ==
    LET n == NValid(RefSlices(call.axis)[k])
    IN  Mul(nanvar(heap, arr, call.axis, 1).res[k], Div(Num(n - 1), Num(n)))
VarPairCall == Finished({"nanvar"}) /\ call.ddof = 0 /\ out.status = "ok"

\* C4 as stated: nanvar(x, a, ddof=0) equals nanvar(x, a, ddof=1) * (n-1)/n
\* for every slice, n = 1 and n = 0 included (read leniently: two NaN count
\* as equal).
C4_Original ==
    VarPairCall =>
        \A k \in 1..Len(out.res) : VarBiased(k) = VarUnbiasedScaled(k)

\* C4 amended: the relation holds, as a floating-point equality, for every
\* slice with n >= 2; for n = 1 the left side is 0 and the right side NaN,
\* for n = 0 both sides are NaN.
C4_Amended ==
    VarPairCall =>
        \A k \in 1..Len(out.res) :
            LET n == NValid(RefSlices(call.axis)[k])
            IN  /\ n >= 2 => FloatEq(VarBiased(k), VarUnbiasedScaled(k))
                /\ n = 1 => VarBiased(k) = Zero /\ IsNaN(VarUnbiasedScaled(k))
                /\ n = 0 => IsNaN(VarBiased(k)) /\ IsNaN(VarUnbiasedScaled(k))

\* A 2-D call whose slices include one with a single valid entry and one
\* with at least two valid entries and non-zero variance.
C4_Witness ==
    /\ VarPairCall /\ Ndim = 2 /\ call.axis # <<>>
    /\ \E k \in 1..Len(out.res) : NValid(RefSlices(call.axis)[k]) = 1
    /\ \E k \in 1..Len(out.res) :
          /\ NValid(RefSlices(call.axis)[k]) >= 2
          /\ VarBiased(k) \notin {NaN, Zero}

\* C5 as stated: in nanstd / nanvar a negative axis is normalized by adding
\* ndim; an axis outside the array fails with InvalidAxis carrying the axis
\* value the caller passed; any other axis reduces along the normalized axis.
C5_InvalidAxisCarriesOriginal ==
    (Finished({"nanstd", "nanvar"}) /\ call.axis # <<>> /\ call.ddof \in {0, 1}) =>
        IF AxisOutOfRange(call.axis)
        THEN out.status = "InvalidAxis" /\ out.errAxis = call.axis
        ELSE /\ out.status = "ok"
             /\ Len(out.m2c) = Len(RefSlices(call.axis))
             /\ \A k \in 1..Len(out.m2c) :
                   out.m2c[k] = RefVar(RefSlices(call.axis)[k], call.ddof)

\* C6: nanstd and nanvar fail with InvalidDDoF, returning nothing, exactly
\* when ddof is neither 0 nor 1, whatever the array and the axis argument.
C6_InvalidDDoF ==
    Finished({"nanstd", "nanvar"}) =>
        /\ out.status = "InvalidDDoF" <=> call.ddof \notin {0, 1}
        /\ out.status = "InvalidDDoF" => out.res = <<>>

\* nanvar with ddof = 2 and an axis outside the array: the ddof error wins.
C6_Witness ==
    /\ Finished({"nanvar"}) /\ call.ddof = 2 /\ AxisOutOfRange(call.axis)
    /\ out.status = "InvalidDDoF"

\* C7 as stated: in all four reductions a call with an axis outside the
\* array fails before the array is copied.
C7_Original ==
    (pc = "done" /\ AxisOutOfRange(call.axis)) =>
        out.status # "ok" /\ ~out.copied

\* C7 amended: nanstd and nanvar reject an axis outside the array before any
\* copy is made; nanmean and nanmedian copy the array first and the failure
\* is signalled afterwards, by the step that uses the axis.
C7_Amended ==
    /\ (Finished({"nanstd", "nanvar"}) /\ AxisOutOfRange(call.axis)) =>
          out.status \in {"InvalidAxis", "InvalidDDoF"} /\ ~out.copied
    /\ (Finished({"nanmean", "nanmedian"}) /\ AxisOutOfRange(call.axis)) =>
          out.status \in {"IndexError", "AxisError"} /\ out.copied

\* nanstd with a valid ddof and axis = ndim on an array holding a NaN: the
\* axis error is raised and no copy exists.
C7_Witness ==
    /\ Finished({"nanstd"}) /\ call.ddof = 1 /\ call.axis = <<Ndim>>
    /\ out.status = "InvalidAxis" /\ ~out.copied
    /\ heap[ScratchBuf] = <<>>
    /\ \E p \in 1..Len(Data) : IsNaN(Data[p])

\* C8: no step changes the caller's storage, whatever the function, the
\* axis (None included, where the flattened array is a view of it) and the
\* outcome; the zero-filling goes to a private copy.
C8_CallerArrayUnchanged == [][heap'[CallerBuf] = heap[CallerBuf]]_vars

\* A whole-array (axis None) call on a 2-D array with a NaN: the private
\* copy is zero-filled, the caller's storage still holds the NaN.
C8_Witness ==
    /\ Finished({"nanmean", "nanstd", "nanvar"}) /\ call.axis = <<>> /\ Ndim = 2
    /\ out.status = "ok"
    /\ \E p \in 1..Len(Data) : IsNaN(Data[p]) /\ heap[ScratchBuf][p] = Zero

\* C9: a successful call returns the input's element type when that type is
\* inexact, and the default floating type for integer and boolean input.
C9_ElementType ==
    (pc = "done" /\ out.status = "ok") =>
        out.rdtype = IF arr.dtype \in Inexact THEN arr.dtype ELSE "float64"

\* Single-precision input reduced to an array: the result is single
\* precision.
C9_Witness ==
    /\ Finished({"nanmean"}) /\ arr.dtype = "float32" /\ Ndim = 2
    /\ call.axis = <<0>> /\ out.status = "ok" /\ out.rnd = 1
    /\ out.rdtype = "float32"

\* C10 as stated: nanmedian called without an axis argument reduces along
\* axis 0, so a 2-D input yields one median per column.
C10_Original ==
    (Finished({"nanmedian"}) /\ call.axis = <<>> /\ Ndim = 2) =>
        /\ out.status = "ok" /\ out.rnd = 1
        /\ out.res = [j \in 1..arr.shape[2] |-> RefMedian(Column(j))]

\* C10 amended: nanmedian called without an axis argument (axis None)
\* reduces the flattened whole array to one scalar, as mean / std / var do.
C10_Amended ==
    (Finished({"nanmedian"}) /\ call.axis = <<>>) =>
        /\ out.status = "ok" /\ out.rnd = 0
        /\ out.res = <<RefMedian(Data)>>

\* A 2 x 2 input whose whole-array median differs from both column medians.
C10_Witness ==
    /\ Finished({"nanmedian"}) /\ call.axis = <<>> /\ arr.shape = <<2, 2>>
    /\ out.status = "ok" /\ out.rnd = 0
    /\ \A j \in 1..2 : out.res[1] # RefMedian(Column(j))

====
